---- MODULE Spec2Model ----
(***************************************************************************)
(* Model of the NetworkController class: the hub                           *)
(* registry, the account/region tracker and the calls it makes to the      *)
(* address manager and to the hub, one action per public or protected      *)
(* method.  Every method is synchronous, so every action is one whole      *)
(* call, including the state it leaves behind when it throws.              *)
(***************************************************************************)
EXTENDS Integers, FiniteSets, Sequences, TLC

(***************************************************************************)
(* Bounds of the model.                                                    *)
(***************************************************************************)
\* Size of the address pool, in blocks of the smallest netmask.
PoolUnits == 3

(***************************************************************************)
(* Environment: accounts, regions, tokens, scopes, identifiers, options.   *)
(***************************************************************************)
\* this.stack.account / this.stack.region: concrete, checked by the constructor.
StackAccount == "111111111111"
StackRegion == "us-east-1"

OtherAccount == "222222222222"
OtherRegion == "eu-west-1"

\* Unresolved values, as CDK encodes them in strings.
AccountToken == "${Token[AWS.AccountId.4]}"
RegionToken == "${Token[AWS.Region.8]}"
Tokens == {AccountToken, RegionToken}

\* Names every JavaScript object inherits from Object.prototype.
ObjectPrototypeKeys ==
    {"constructor", "toString", "toLocaleString", "valueOf", "hasOwnProperty",
     "isPrototypeOf", "propertyIsEnumerable", "__proto__"}

\* A concrete region string that is also an inherited property name.
InheritedRegion == "constructor"

ConcreteAccounts == {StackAccount, OtherAccount}
ConcreteRegions == {StackRegion, OtherRegion, InheritedRegion}
ScopeAccounts == ConcreteAccounts \cup {AccountToken}
ScopeRegions == ConcreteRegions \cup {RegionToken}

\* Token.isUnresolved(value)
IsUnresolved(value) == value \in Tokens

\* A construction scope, by the environment Stack.of(scope) gives: the
\* controller's own, another account in its region, another account in
\* another region, a region named like an inherited property, and two that
\* are not fully resolved.
Scopes ==
    {[account |-> StackAccount, region |-> StackRegion],
     [account |-> OtherAccount, region |-> StackRegion],
     [account |-> OtherAccount, region |-> OtherRegion],
     [account |-> OtherAccount, region |-> InheritedRegion],
     [account |-> AccountToken, region |-> OtherRegion],
     [account |-> OtherAccount, region |-> RegionToken]}

\* scope.node.addr: a string unique to the scope.
NodeAddr(scope) == scope.account \o "/" \o scope.region

\* Identifiers a caller passes; the second one has the form the controller
\* derives for a spoke named "net" in the scope of OtherAccount/OtherRegion.
Ids == {"net", "net-" \o OtherAccount \o "/" \o OtherRegion}

\* props.defaultNetmask ?? 16
FallbackNetmask == 16

\* The longest prefix a caller asks for; the pool is counted in its blocks.
SmallestNetmask == FallbackNetmask + 1

\* An options object without a netmask, and the options a caller passes.
NoOptions == [k \in {} |-> 0]
OptionsSet == {NoOptions} \cup [netmask : {0, SmallestNetmask}]

\* new NetworkController(scope, id, props): props.defaultNetmask is optional.
PropsSet == {NoOptions}

\* FlowLogFormat: the default of the constructor and another format.
FlowLogFormatV5 == "V5"
FlowLogFormatV3 == "V3"

\* The bucket a caller supplies, and new FlowLogsBucket(this, 'flow-log-bucket').
SuppliedBucket == "supplied-bucket"
CreatedBucket == "flow-log-bucket"

\* The props of the controllers built with no prop and with every prop given.
PropsGiven ==
    PropsSet \cup {[defaultNetmask |-> SmallestNetmask,
                    flowLogBucket |-> SuppliedBucket,
                    flowLogFormat |-> FlowLogFormatV3]}

(***************************************************************************)
(* State.                                                                  *)
(***************************************************************************)
VARIABLES
    stack,               \* this.stack: the environment of the controller's stack
    failure,             \* what the constructor threw, None when it returned
    props,               \* the props the controller was constructed with
    hubs,                \* _hubs: region -> hub
    registeredAccounts,  \* _registeredAccounts, in insertion order
    registeredRegions,   \* _registeredRegions, in insertion order
    defaultNetmask,      \* this.defaultNetmask
    flowLogFormat,       \* this.flowLogFormat
    flowLogBucket,       \* this.flowLogBucket
    ledger,              \* the address manager's allocations
    spokes               \* the spokes the hubs own

vars == <<stack, failure, props, hubs, registeredAccounts, registeredRegions,
          defaultNetmask, flowLogFormat, flowLogBucket, ledger, spokes>>

\* The mutable state a call works on, threaded through its steps.
Ctl ==
    [hubs |-> hubs, accounts |-> registeredAccounts, regions |-> registeredRegions,
     ledger |-> ledger, spokes |-> spokes]

\* No exception.
None == "none"

\* Mutant: the rule names the default format, whatever the controller's is.
DefaultFlowLogs_FormatV5 ==
    [destination |-> flowLogBucket, logFormatDefinition |-> FlowLogFormatV5]

\* 'flow-log-default': {destination: FlowLogDestination.toS3(this.flowLogBucket),
\*                      logFormatDefinition: this.flowLogFormat}
DefaultFlowLogs ==
    [destination |-> flowLogBucket, logFormatDefinition |-> flowLogFormat]

(***************************************************************************)
(* JavaScript objects used as maps: _hubs is created as {} and so inherits *)
(* the members of Object.prototype.                                        *)
(***************************************************************************)
EmptyObject == [k \in {} |-> 0]

\* Mutant: the membership test always answers no.
HasProperty_Never(obj, key) == FALSE

\* key in obj
HasProperty(obj, key) == key \in DOMAIN obj \/ key \in ObjectPrototypeKeys

\* Mutant: the lookup uses the controller's own region, not the key.
GetProperty_StackRegion(obj, key) ==
    IF StackRegion \in DOMAIN obj THEN [kind |-> "hub", value |-> obj[StackRegion]]
    ELSE [kind |-> "undefined", value |-> key]

\* obj[key]: an own value, an inherited member, or undefined.
GetProperty(obj, key) ==
    IF key \in DOMAIN obj THEN [kind |-> "hub", value |-> obj[key]]
    ELSE IF key \in ObjectPrototypeKeys THEN [kind |-> "inherited", value |-> key]
    ELSE [kind |-> "undefined", value |-> key]

\* Mutant: the object is replaced by one that holds the new entry alone.
SetProperty_Fresh(obj, key, value) == [k \in {key} |-> value]

\* Mutant: the value is stored under the controller's own region.
SetProperty_StackRegion(obj, key, value) ==
    [k \in DOMAIN obj \cup {StackRegion} |-> IF k = StackRegion THEN value ELSE obj[k]]

\* obj[key] = value
SetProperty(obj, key, value) ==
    [k \in DOMAIN obj \cup {key} |-> IF k = key THEN value ELSE obj[k]]

(***************************************************************************)
(* Account/region registration.  A JavaScript Set keeps its members in     *)
(* insertion order, without duplicates: it is modelled as a sequence, which *)
(* is also what the getters return.                                        *)
(***************************************************************************)
Range(seq) == {seq[i] : i \in 1 .. Len(seq)}

\* array.includes(value)
Includes(seq, value) == value \in Range(seq)

\* set.add(value)
SetAdd(seq, value) == IF value \in Range(seq) THEN seq ELSE Append(seq, value)

\* Mutant: the controller's own account is registered like any other.
registerAccount_NoOwnCheck(c, account) ==
    IF Includes(c.accounts, account) THEN [c |-> c, thrown |-> None]
    ELSE IF IsUnresolved(account)
    THEN [c |-> c, thrown |-> "SymbolicIdentifierError"]
    ELSE [c |-> [c EXCEPT !.accounts = SetAdd(@, account)], thrown |-> None]

\* Mutant: the members are kept in an array and pushed without looking.
registerAccount_Push(c, account) ==
    IF account = stack.account THEN [c |-> c, thrown |-> None]
    ELSE IF IsUnresolved(account)
    THEN [c |-> c, thrown |-> "SymbolicIdentifierError"]
    ELSE [c |-> [c EXCEPT !.accounts = Append(@, account)], thrown |-> None]

registerAccount(c, account) ==
    IF account = stack.account THEN [c |-> c, thrown |-> None]
    ELSE IF Includes(c.accounts, account) THEN [c |-> c, thrown |-> None]
    ELSE IF IsUnresolved(account)
    THEN [c |-> c, thrown |-> "SymbolicIdentifierError"]
    ELSE [c |-> [c EXCEPT !.accounts = SetAdd(@, account)], thrown |-> None]

\* Mutant: the region is not tested for being unresolved.
registerRegion_NoTokenCheck(c, region) ==
    IF region = stack.region THEN [c |-> c, thrown |-> None]
    ELSE IF Includes(c.regions, region) THEN [c |-> c, thrown |-> None]
    ELSE [c |-> [c EXCEPT !.regions = SetAdd(@, region)], thrown |-> None]

\* Mutant: the region is added to the accounts.
registerRegion_AddsToAccounts(c, region) ==
    IF region = stack.region THEN [c |-> c, thrown |-> None]
    ELSE IF Includes(c.regions, region) THEN [c |-> c, thrown |-> None]
    ELSE IF IsUnresolved(region)
    THEN [c |-> c, thrown |-> "SymbolicIdentifierError"]
    ELSE [c |-> [c EXCEPT !.accounts = SetAdd(@, region)], thrown |-> None]

registerRegion(c, region) ==
    IF region = stack.region THEN [c |-> c, thrown |-> None]
    ELSE IF Includes(c.regions, region) THEN [c |-> c, thrown |-> None]
    ELSE IF IsUnresolved(region)
    THEN [c |-> c, thrown |-> "SymbolicIdentifierError"]
    ELSE [c |-> [c EXCEPT !.regions = SetAdd(@, region)], thrown |-> None]

(***************************************************************************)
(* The address manager (IpAddressManager), by its allocation contract: a   *)
(* ledger of ranges, each request answered with the lowest range of the    *)
(* requested size that overlaps nothing in the ledger, or refused when the *)
(* pool has no such range left.  The controller never looks into a range.  *)
(***************************************************************************)
BlockSize(netmask) == 2 ^ (SmallestNetmask - netmask)

\* The aligned ranges of a prefix length inside the pool.
Blocks(netmask) ==
    LET size == BlockSize(netmask)
    IN  IF size > PoolUnits THEN {}
        ELSE {(k * size) .. (k * size + size - 1) : k \in 0 .. ((PoolUnits \div size) - 1)}

Overlap(a, b) == a \cap b # {}

FreeBlocks(c, netmask) ==
    {b \in Blocks(netmask) : \A e \in c.ledger : ~Overlap(e.cidr, b)}

\* The first address of a range.
First(cidr) == CHOOSE x \in cidr : \A y \in cidr : x <= y

\* The range a request is answered with.
NextBlocks(c, netmask) ==
    {b \in FreeBlocks(c, netmask) :
        \A other \in FreeBlocks(c, netmask) : First(b) <= First(other)}

\* addressManager.getVpcConfiguration(scope, id, {netmask}): every outcome.
getVpcConfiguration(c, scope, id, netmask) ==
    IF FreeBlocks(c, netmask) = {}
    THEN {[c |-> c, thrown |-> "AllocationError", provider |-> {}]}
    ELSE {[c |-> [c EXCEPT !.ledger = @ \cup
                     {[scope |-> NodeAddr(scope), key |-> id, netmask |-> netmask,
                       cidr |-> b, manual |-> FALSE]}],
           thrown |-> None, provider |-> b] : b \in NextBlocks(c, netmask)}

\* The scopes, identifiers and ranges of the registrations made by hand.
ManualScopes == {[account |-> StackAccount, region |-> StackRegion]}
ManualIds == {"manual"}
ManualCidrs == {0 .. 0}

\* addressManager.registerCidr(scope, id, cidr)
allocatorRegisterCidr(c, scope, id, cidr) ==
    [c |-> [c EXCEPT !.ledger = @ \cup
               {[scope |-> NodeAddr(scope), key |-> id,
                 netmask |-> SmallestNetmask, cidr |-> cidr, manual |-> TRUE]}],
     thrown |-> None]

(***************************************************************************)
(* Constructs: a scope holds at most one child construct per identifier.   *)
(* The hubs and spokes are the children the controller's calls create.     *)
(***************************************************************************)
HasChild(c, scope, id) ==
    \/ \E r \in DOMAIN c.hubs : c.hubs[r].scope = scope /\ c.hubs[r].id = id
    \/ \E s \in c.spokes : s.scope = scope /\ s.id = id

\* Mutant: the provider is not passed on, the hub takes the first range of
\* the default size.
NewHub_DefaultCidr(c, scope, id, provider, flowLogs) ==
    IF HasChild(c, scope, id)
    THEN [thrown |-> "ConstructError", hub |-> EmptyObject]
    ELSE [thrown |-> None,
          hub |-> [scope |-> scope, id |-> id, region |-> scope.region,
                   cidr |-> 0 .. (BlockSize(FallbackNetmask) - 1),
                   flowLogs |-> flowLogs]]

\* new FourTierNetworkHub(scope, id, {cidr: provider, flowLogs: flowLogs, ...})
NewHub(c, scope, id, provider, flowLogs) ==
    IF HasChild(c, scope, id)
    THEN [thrown |-> "ConstructError", hub |-> EmptyObject]
    ELSE [thrown |-> None,
          hub |-> [scope |-> scope, id |-> id, region |-> scope.region,
                   cidr |-> provider, flowLogs |-> flowLogs]]

\* hub.addSpoke(scope, id, {cidr: provider, flowLogs: flowLogs, ...}); hub is
\* what _hubs[region] gave.
hubAddSpoke(c, hub, scope, id, provider, flowLogs) ==
    IF hub.kind # "hub" THEN [c |-> c, thrown |-> "TypeError"]
    ELSE IF HasChild(c, scope, id) THEN [c |-> c, thrown |-> "ConstructError"]
    ELSE [c |-> [c EXCEPT !.spokes = @ \cup
                    {[scope |-> scope, id |-> id, region |-> scope.region,
                      cidr |-> provider, flowLogs |-> flowLogs,
                      hub |-> hub.value]}],
          thrown |-> None]

(***************************************************************************)
(* addHub and addSpoke: the set of outcomes of one call, each the state    *)
(* the call leaves and the exception it ends with.                         *)
(***************************************************************************)
\* Mutant: options.netmask || this.defaultNetmask
RequestedNetmask_Or(options, default) ==
    IF "netmask" \in DOMAIN options /\ options.netmask # 0
    THEN options.netmask ELSE default

\* options.netmask ?? this.defaultNetmask
RequestedNetmask(options, default) ==
    IF "netmask" \in DOMAIN options THEN options.netmask ELSE default

\* The allocation key of a hub: its identifier.
HubKey(scope, id) == id

\* The allocation key of a spoke: `${id}-${scope.node.addr}`
SpokeKey(scope, id) == id \o "-" \o NodeAddr(scope)

\* Mutant: the environment of the scope is not looked at.
UnboundEnvironment_Never(scope) == FALSE

\* Mutant: only the account is looked at.
UnboundEnvironment_AccountOnly(scope) == IsUnresolved(scope.account)

\* Token.isUnresolved(scopeAccount) || Token.isUnresolved(scopeRegion)
UnboundEnvironment(scope) ==
    IsUnresolved(scope.account) \/ IsUnresolved(scope.region)

\* Mutant: the region's entry is taken, with the hub to be, before the range
\* is requested.
addHubBody_StoreFirst(c, default, scope, id, options) ==
    LET ra == registerAccount(c, scope.account)
        rr == registerRegion(ra.c, scope.region)
        netmask == RequestedNetmask(options, default)
        early == [rr.c EXCEPT !.hubs = SetProperty(@, scope.region,
                     [scope |-> scope, id |-> id, region |-> scope.region,
                      cidr |-> {}, flowLogs |-> DefaultFlowLogs])]
    IN  IF ra.thrown # None THEN {ra}
        ELSE IF rr.thrown # None THEN {rr}
        ELSE {IF p.thrown # None THEN [c |-> p.c, thrown |-> p.thrown]
              ELSE [c |-> [p.c EXCEPT !.hubs[scope.region].cidr = p.provider],
                    thrown |-> None]
              : p \in getVpcConfiguration(early, scope, HubKey(scope, id), netmask)}

\* What addHub does once its checks have passed.
addHubBody(c, default, scope, id, options) ==
    LET ra == registerAccount(c, scope.account)
        rr == registerRegion(ra.c, scope.region)
        netmask == RequestedNetmask(options, default)
    IN  IF ra.thrown # None THEN {ra}
        ELSE IF rr.thrown # None THEN {rr}
        ELSE {IF p.thrown # None THEN [c |-> p.c, thrown |-> p.thrown]
              ELSE LET n == NewHub(p.c, scope, id, p.provider, DefaultFlowLogs)
                   IN  IF n.thrown # None
                       THEN [c |-> p.c, thrown |-> n.thrown]
                       ELSE [c |-> [p.c EXCEPT !.hubs =
                                       SetProperty(@, scope.region, n.hub)],
                             thrown |-> None]
              : p \in getVpcConfiguration(rr.c, scope, HubKey(scope, id), netmask)}

\* Mutant: the hub of the region is looked for before the environment.
addHub_DuplicateFirst(c, default, scope, id, options) ==
    IF HasProperty(c.hubs, scope.region)
    THEN {[c |-> c, thrown |-> "DuplicateHubError"]}
    ELSE IF UnboundEnvironment(scope)
    THEN {[c |-> c, thrown |-> "UnboundEnvironmentError"]}
    ELSE addHubBody(c, default, scope, id, options)

\* addHub(scope, id, options): every outcome of the call.
addHub(c, default, scope, id, options) ==
    IF UnboundEnvironment(scope)
    THEN {[c |-> c, thrown |-> "UnboundEnvironmentError"]}
    ELSE IF HasProperty(c.hubs, scope.region)
    THEN {[c |-> c, thrown |-> "DuplicateHubError"]}
    ELSE addHubBody(c, default, scope, id, options)

\* What addSpoke does once its checks have passed; hub is _hubs[scopeRegion].
addSpokeBody(c, default, hub, scope, id, options) ==
    LET ra == registerAccount(c, scope.account)
        rr == registerRegion(ra.c, scope.region)
        netmask == RequestedNetmask(options, default)
    IN  IF ra.thrown # None THEN {ra}
        ELSE IF rr.thrown # None THEN {rr}
        ELSE {IF p.thrown # None THEN [c |-> p.c, thrown |-> p.thrown]
              ELSE hubAddSpoke(p.c, hub, scope, id, p.provider, DefaultFlowLogs)
              : p \in getVpcConfiguration(rr.c, scope, SpokeKey(scope, id), netmask)}

addSpoke(c, default, scope, id, options) ==
    LET hub == GetProperty(c.hubs, scope.region)
    IN  IF UnboundEnvironment(scope)
        THEN {[c |-> c, thrown |-> "UnboundEnvironmentError"]}
        ELSE IF hub.kind = "undefined"
        THEN {[c |-> c, thrown |-> "MissingHubError"]}
        ELSE addSpokeBody(c, default, hub, scope, id, options)

\* Mutant: the range is not forwarded to the address manager.
registerCidr_Dropped(c, scope, id, cidr) == [c |-> c, thrown |-> None]

\* registerCidr(scope, id, cidr)
registerCidr(c, scope, id, cidr) == allocatorRegisterCidr(c, scope, id, cidr)

(***************************************************************************)
(* The state machine: one action per method call.                          *)
(***************************************************************************)
\* A call leaves the state c behind, whether it returns or throws.
Return(c) ==
    /\ hubs' = c.hubs
    /\ registeredAccounts' = c.accounts
    /\ registeredRegions' = c.regions
    /\ ledger' = c.ledger
    /\ spokes' = c.spokes
    /\ UNCHANGED <<stack, failure, props, defaultNetmask, flowLogFormat,
                   flowLogBucket>>

\* props.defaultNetmask ?? 16
DefaultNetmask(p) ==
    IF "defaultNetmask" \in DOMAIN p THEN p.defaultNetmask ELSE FallbackNetmask

\* The stacks a controller is constructed in.
StackEnvironments ==
    {[account |-> StackAccount, region |-> StackRegion],
     [account |-> AccountToken, region |-> StackRegion],
     [account |-> StackAccount, region |-> RegionToken]}

\* Mutant: the constructor looks at the account alone.
StackUnbound_AccountOnly(env) == IsUnresolved(env.account)

\* Token.isUnresolved(this.stack.account) || Token.isUnresolved(this.stack.region)
StackUnbound(env) == IsUnresolved(env.account) \/ IsUnresolved(env.region)

\* new NetworkController(scope, id, p) in a stack of environment env: the
\* constructor throws before it assigns a field, or assigns them all.
Constructed(env, p) ==
    /\ stack = env
    /\ failure = IF StackUnbound(env) THEN "UnboundEnvironmentError" ELSE None
    /\ props = p
    /\ hubs = EmptyObject
    /\ registeredAccounts = <<>>
    /\ registeredRegions = <<>>
    /\ defaultNetmask = DefaultNetmask(p)
    /\ flowLogFormat = (IF "flowLogFormat" \in DOMAIN p
                        THEN p.flowLogFormat ELSE FlowLogFormatV5)
    /\ flowLogBucket = (IF "flowLogBucket" \in DOMAIN p
                        THEN p.flowLogBucket ELSE CreatedBucket)
    /\ ledger = {}
    /\ spokes = {}

Init == \E env \in StackEnvironments, p \in PropsSet : Constructed(env, p)

addHubCall ==
    /\ failure = None
    /\ \E scope \in Scopes, id \in Ids, options \in OptionsSet :
        \E o \in addHub(Ctl, defaultNetmask, scope, id, options) :
            Return(o.c)

addSpokeCall ==
    /\ failure = None
    /\ \E scope \in Scopes, id \in Ids, options \in OptionsSet :
        \E o \in addSpoke(Ctl, defaultNetmask, scope, id, options) :
            Return(o.c)

registerCidrCall ==
    /\ failure = None
    /\ \E scope \in ManualScopes, id \in ManualIds, cidr \in ManualCidrs :
        Return(registerCidr(Ctl, scope, id, cidr).c)

registerAccountCall ==
    /\ failure = None
    /\ \E account \in ScopeAccounts :
        Return(registerAccount(Ctl, account).c)

registerRegionCall ==
    /\ failure = None
    /\ \E region \in ScopeRegions :
        Return(registerRegion(Ctl, region).c)

Next ==
    \/ addHubCall
    \/ addSpokeCall
    \/ registerCidrCall
    \/ registerAccountCall
    \/ registerRegionCall

Spec == Init /\ [][Next]_vars

\* The controllers constructed with no prop and with every prop given.
InitGiven ==
    \E env \in StackEnvironments, p \in PropsGiven : Constructed(env, p)

SpecGiven == InitGiven /\ [][Next]_vars

(***************************************************************************)
(* Properties.  A property about "a call" is stated over every call a      *)
(* caller can make in a reachable state: the outcomes addHub and addSpoke  *)
(* give there.                                                             *)
(***************************************************************************)
HubOutcomes(scope, id, options) == addHub(Ctl, defaultNetmask, scope, id, options)

SpokeOutcomes(scope, id, options) == addSpoke(Ctl, defaultNetmask, scope, id, options)

\* A scope whose account and region are both resolved.
Concrete(scope) == scope.account \notin Tokens /\ scope.region \notin Tokens

\* The hubs and spokes that exist, by kind, construct and range.
Networks ==
    {[kind |-> "hub", scope |-> hubs[r].scope, id |-> hubs[r].id,
      cidr |-> hubs[r].cidr] : r \in DOMAIN hubs}
    \cup {[kind |-> "spoke", scope |-> s.scope, id |-> s.id, cidr |-> s.cidr] :
          s \in spokes}

\* C1: once a region has a hub, every addHub call whose scope resolves to
\* that region and to an account, whatever the account and the identifier,
\* fails with DuplicateHubError and leaves the state, so the hub stored for
\* the region, as it was; the hub stored for a region is a hub of that region.
C1_OneHubPerRegion ==
    \A R \in DOMAIN hubs :
        /\ hubs[R].region = R
        /\ \A scope \in Scopes, id \in Ids, options \in OptionsSet :
              (scope.region = R /\ Concrete(scope)) =>
                  HubOutcomes(scope, id, options)
                      = {[c |-> Ctl, thrown |-> "DuplicateHubError"]}

\* A region has a hub, and addHub from another account with another
\* identifier is refused for it.
C1_Witness ==
    \E R \in DOMAIN hubs : \E scope \in Scopes, id \in Ids :
        /\ scope.region = R
        /\ scope.account # hubs[R].scope.account
        /\ id # hubs[R].id
        /\ \E o \in HubOutcomes(scope, id, NoOptions) : o.thrown = "DuplicateHubError"

\* C2: for every concrete scope whose region has no hub, addSpoke fails
\* with MissingHubError and leaves the allocator's ledger as it was.
C2_MissingHubForEveryRegion ==
    \A scope \in Scopes, id \in Ids, options \in OptionsSet :
        (Concrete(scope) /\ scope.region \notin DOMAIN hubs) =>
            \A o \in SpokeOutcomes(scope, id, options) :
                o.thrown = "MissingHubError" /\ o.c.ledger = ledger

\* C3: a step adds a spoke only for a region that had a hub before the
\* step, attached to that hub; so every spoke is in a region that has a hub.
C3_Step ==
    /\ \A s \in spokes' \ spokes :
          s.region \in DOMAIN hubs /\ s.hub = hubs[s.region]
    /\ \A s \in spokes' : s.region \in DOMAIN hubs'

C3_HubBeforeSpoke == [][C3_Step]_vars

\* A spoke exists in a region other than the controller's, next to a
\* region that has no hub.
C3_Witness ==
    /\ \E s \in spokes : s.region = OtherRegion
    /\ StackRegion \notin DOMAIN hubs

\* C4: the registered accounts and regions never hold the controller's own
\* account or region, nor an unresolved value.
C4_OwnAndUnresolvedNeverRegistered ==
    /\ StackAccount \notin Range(registeredAccounts)
    /\ StackRegion \notin Range(registeredRegions)
    /\ \A a \in Range(registeredAccounts) : ~IsUnresolved(a)
    /\ \A r \in Range(registeredRegions) : ~IsUnresolved(r)

\* The controller's own account and region have gone through registration
\* (a hub was added from its own environment) and other ones are registered.
C4_Witness ==
    /\ StackRegion \in DOMAIN hubs
    /\ hubs[StackRegion].scope.account = StackAccount
    /\ registeredAccounts # <<>>
    /\ registeredRegions # <<>>

\* C5: the ranges of all hubs and spokes are pairwise non-overlapping.
C5_RangesDisjoint ==
    \A m, n \in Networks : m # n => ~Overlap(m.cidr, n.cidr)

\* A hub with two spokes.
C5_Witness ==
    \E s, t \in spokes : s # t /\ s.hub = t.hub

\* C6: addHub and addSpoke from a scope whose account or region is
\* unresolved fail with UnboundEnvironmentError and leave the hubs, the
\* spokes, the registered accounts and regions and the ledger as they were.
C6_UnresolvedScopeRejected ==
    \A scope \in Scopes, id \in Ids, options \in OptionsSet :
        ~Concrete(scope) =>
            /\ HubOutcomes(scope, id, options)
                   = {[c |-> Ctl, thrown |-> "UnboundEnvironmentError"]}
            /\ SpokeOutcomes(scope, id, options)
                   = {[c |-> Ctl, thrown |-> "UnboundEnvironmentError"]}

\* A hub and a spoke exist and a call from an unresolved scope is refused.
C6_Witness ==
    /\ DOMAIN hubs # {}
    /\ spokes # {}
    /\ \E scope \in Scopes :
          /\ ~Concrete(scope)
          /\ \E o \in SpokeOutcomes(scope, "net", NoOptions) :
                o.thrown = "UnboundEnvironmentError"

\* C7: an addHub call that fails, whatever the cause, leaves hubs as it was.
C7_FailedAddHubKeepsHubs ==
    \A scope \in Scopes, id \in Ids, options \in OptionsSet :
        \A o \in HubOutcomes(scope, id, options) :
            o.thrown # None => o.c.hubs = hubs

\* A region has a hub and an addHub call for another region fails after its
\* checks, while the range is requested.
C7_Witness ==
    /\ DOMAIN hubs # {}
    /\ \E scope \in Scopes, id \in Ids, options \in OptionsSet :
          \E o \in HubOutcomes(scope, id, options) :
              /\ o.thrown \notin {None, "UnboundEnvironmentError", "DuplicateHubError"}
              /\ o.c # Ctl

\* C8: an addHub or addSpoke call that fails, at whatever step, leaves the
\* whole state as it was.
C8_FailedCallChangesNothing ==
    \A scope \in Scopes, id \in Ids, options \in OptionsSet :
        \A o \in HubOutcomes(scope, id, options) \cup SpokeOutcomes(scope, id, options) :
            o.thrown # None => o.c = Ctl

\* C9: the account of every hub and spoke is the controller's own or a
\* registered one, and so is its region.
C9_NetworksAreTracked ==
    \A n \in Networks :
        /\ n.scope.account = StackAccount \/ Includes(registeredAccounts, n.scope.account)
        /\ n.scope.region = StackRegion \/ Includes(registeredRegions, n.scope.region)

\* A network exists outside the controller's account and region.
C9_Witness ==
    \E n \in Networks :
        n.scope.account # StackAccount /\ n.scope.region # StackRegion

\* The number of entries of a sequence equal to a value.
Count(seq, value) == Cardinality({i \in 1 .. Len(seq) : seq[i] = value})

\* Registering an account, or a region, a second time changes nothing.
IdempotentAccount(account) ==
    LET once == registerAccount(Ctl, account)
        twice == registerAccount(once.c, account)
    IN  once.thrown = None /\ twice.thrown = None /\ twice.c = once.c

IdempotentRegion(region) ==
    LET once == registerRegion(Ctl, region)
        twice == registerRegion(once.c, region)
    IN  once.thrown = None /\ twice.thrown = None /\ twice.c = once.c

\* C10: registering a concrete account or region a second time, directly or
\* through addHub and addSpoke, changes nothing, and each registered value
\* is held exactly once.
C10_RegistrationIdempotent ==
    /\ \A a \in ConcreteAccounts : IdempotentAccount(a)
    /\ \A r \in ConcreteRegions : IdempotentRegion(r)
    /\ \A a \in Range(registeredAccounts) : Count(registeredAccounts, a) = 1
    /\ \A r \in Range(registeredRegions) : Count(registeredRegions, r) = 1
    /\ \A scope \in Scopes, id \in Ids, options \in OptionsSet :
          \A o \in HubOutcomes(scope, id, options) \cup SpokeOutcomes(scope, id, options) :
              o.thrown = None =>
                  /\ registerAccount(o.c, scope.account).c = o.c
                  /\ registerRegion(o.c, scope.region).c = o.c

\* Two networks of one registered account and region exist: their calls
\* registered the same account and region twice.
C10_Witness ==
    \E m, n \in Networks :
        /\ m # n
        /\ m.scope = n.scope
        /\ Count(registeredAccounts, m.scope.account) = 1
        /\ Count(registeredRegions, m.scope.region) = 1

\* C11: registerAccount and registerRegion called with an unresolved value
\* fail with SymbolicIdentifierError and leave the state as it was, in
\* every state of a controller that exists (its own account and region are
\* concrete, C15, so an unresolved value is never the controller's own).
C11_UnresolvedRegistrationRejected ==
    failure = None =>
        \A value \in Tokens :
            /\ registerAccount(Ctl, value)
                   = [c |-> Ctl, thrown |-> "SymbolicIdentifierError"]
            /\ registerRegion(Ctl, value)
                   = [c |-> Ctl, thrown |-> "SymbolicIdentifierError"]

\* Accounts and regions are registered and an unresolved one is refused.
C11_Witness ==
    /\ registeredAccounts # <<>>
    /\ Len(registeredRegions) > 1
    /\ registerRegion(Ctl, RegionToken).thrown = "SymbolicIdentifierError"

\* C12: every spoke is attached to the hub stored for the spoke's own
\* region, and that hub is a hub of that region; the spoke a successful
\* addSpoke call adds is attached to the hub stored for the call's region.
C12_SpokeAttachedToRegionHub ==
    /\ \A s \in spokes :
          /\ s.region \in DOMAIN hubs
          /\ s.hub = hubs[s.region]
          /\ s.hub.region = s.region
    /\ \A scope \in Scopes, id \in Ids, options \in OptionsSet :
          \A o \in SpokeOutcomes(scope, id, options) :
              o.thrown = None =>
                  /\ scope.region \in DOMAIN hubs
                  /\ \E s \in o.c.spokes \ spokes :
                        /\ s.scope = scope /\ s.id = id
                        /\ s.hub = hubs[scope.region]
                        /\ s.hub.region = scope.region

\* Hubs for two regions exist, and a spoke.
C12_Witness ==
    /\ Cardinality(DOMAIN hubs) = 2
    /\ spokes # {}

\* A sequence that continues another one.
Extends(longer, shorter) ==
    /\ Len(shorter) <= Len(longer)
    /\ \A i \in 1 .. Len(shorter) : longer[i] = shorter[i]

\* C13: a step stores at most one new hub, under the key of the hub's own
\* region, and leaves every entry hubs already had as it was; the hubs, the
\* registered accounts and the registered regions only grow.
C13_Step ==
    /\ \A R \in DOMAIN hubs : R \in DOMAIN hubs' /\ hubs'[R] = hubs[R]
    /\ Cardinality(DOMAIN hubs' \ DOMAIN hubs) <= 1
    /\ \A R \in DOMAIN hubs' : hubs'[R].region = R
    /\ Extends(registeredAccounts', registeredAccounts)
    /\ Extends(registeredRegions', registeredRegions)

C13_HubsOnlyGrow == [][C13_Step]_vars

\* Two hubs are stored, the second one added next to the first, and two
\* regions are registered.
C13_Witness ==
    /\ Cardinality(DOMAIN hubs) = 2
    /\ Len(registeredRegions) = 2

\* The netmask C14 says a call requests.
Expected(options) ==
    IF "netmask" \in DOMAIN options THEN options.netmask ELSE defaultNetmask

\* A request of the expected netmask was answered: one entry was added to
\* the ledger, for that netmask.
Answered(after, options) ==
    \E e \in after.ledger \ ledger :
        /\ after.ledger \ ledger = {e}
        /\ e.netmask = Expected(options)
        /\ Cardinality(e.cidr) = BlockSize(Expected(options))

\* C14: defaultNetmask is props.defaultNetmask when given (0 too), else 16;
\* a call of addHub or addSpoke that gets as far as the allocator requests
\* options.netmask when given (0 too), else defaultNetmask: the range it is
\* answered with has that netmask, and it is refused only when the pool has
\* no free range of that netmask.
C14_RequestedNetmask ==
    /\ defaultNetmask
           = (IF "defaultNetmask" \in DOMAIN props THEN props.defaultNetmask ELSE 16)
    /\ \A scope \in Scopes, id \in Ids, options \in OptionsSet :
          \A o \in HubOutcomes(scope, id, options) \cup SpokeOutcomes(scope, id, options) :
              /\ o.thrown \in {None, "TypeError", "ConstructError"}
                     => Answered(o.c, options)
              /\ o.thrown = "AllocationError"
                     => /\ o.c.ledger = ledger
                        /\ \A b \in Blocks(Expected(options)) :
                              \E e \in ledger : Overlap(e.cidr, b)

\* A controller built with a default netmask of its own has a hub, can add
\* another without options, and refuses a request for netmask 0 while a
\* range of the default netmask is free.
C14_Witness ==
    /\ "defaultNetmask" \in DOMAIN props
    /\ defaultNetmask # FallbackNetmask
    /\ DOMAIN hubs # {}
    /\ \E scope \in Scopes :
          /\ \E o \in HubOutcomes(scope, "net", NoOptions) : o.thrown = None
          /\ \E o \in HubOutcomes(scope, "net", [netmask |-> 0]) :
                o.thrown = "AllocationError"

\* C15: a controller constructed in a stack whose account or region is
\* unresolved fails with UnboundEnvironmentError, so the account and the
\* region of every controller that exists are concrete, in every state.
C15_OwnEnvironmentConcrete ==
    /\ (IsUnresolved(stack.account) \/ IsUnresolved(stack.region))
           => failure = "UnboundEnvironmentError"
    /\ failure = None => Concrete(stack)
    /\ failure # None => Ctl = [hubs |-> EmptyObject, accounts |-> <<>>,
                                regions |-> <<>>, ledger |-> {}, spokes |-> {}]

\* A construction in a stack of concrete account and unresolved region.
C15_Witness ==
    /\ ~IsUnresolved(stack.account)
    /\ IsUnresolved(stack.region)
    /\ failure = "UnboundEnvironmentError"

\* C16: registerCidr forwards the range to the address manager and leaves
\* hubs, registeredAccounts and registeredRegions as they were; no range an
\* addHub or addSpoke call allocates afterwards overlaps a range registered
\* by hand before the call.
C16_ManualRangesAvoided ==
    /\ \A scope \in ManualScopes, id \in ManualIds, cidr \in ManualCidrs :
          LET r == registerCidr(Ctl, scope, id, cidr)
          IN  /\ r.thrown = None
              /\ r.c.hubs = hubs
              /\ r.c.accounts = registeredAccounts
              /\ r.c.regions = registeredRegions
              /\ r.c.spokes = spokes
              /\ ledger \subseteq r.c.ledger
              /\ \E m \in r.c.ledger : m.manual /\ m.cidr = cidr
    /\ \A scope \in Scopes, id \in Ids, options \in OptionsSet :
          \A o \in HubOutcomes(scope, id, options) \cup SpokeOutcomes(scope, id, options) :
              \A e \in o.c.ledger \ ledger, m \in ledger :
                  m.manual => ~Overlap(e.cidr, m.cidr)

\* A range was registered by hand while the pool was empty, and the one
\* network added since lies right behind it.
C16_Witness ==
    /\ Cardinality(ledger) = 2
    /\ \E m \in ledger, e \in ledger :
          /\ m.manual /\ First(m.cidr) = 0
          /\ ~e.manual /\ First(e.cidr) = 1
          /\ \E n \in Networks : n.cidr = e.cidr

\* C17: every hub and every spoke carries one and the same default rule:
\* its destination is the controller's bucket (the supplied one, else the
\* one the controller created) and its format is the controller's format,
\* whatever the order of the calls and their options.
C17_SameDefaultFlowLogs ==
    /\ flowLogBucket = (IF "flowLogBucket" \in DOMAIN props
                        THEN props.flowLogBucket ELSE "flow-log-bucket")
    /\ \A n \in {hubs[R] : R \in DOMAIN hubs} \cup spokes :
          /\ n.flowLogs.destination = flowLogBucket
          /\ n.flowLogs.logFormatDefinition = flowLogFormat
    /\ \A scope \in Scopes, id \in Ids, options \in OptionsSet :
          /\ \A o \in HubOutcomes(scope, id, options) :
                o.thrown = None
                    => o.c.hubs[scope.region].flowLogs
                           = [destination |-> flowLogBucket,
                              logFormatDefinition |-> flowLogFormat]
          /\ \A o \in SpokeOutcomes(scope, id, options) :
                \A n \in o.c.spokes \ spokes :
                    n.flowLogs = [destination |-> flowLogBucket,
                                  logFormatDefinition |-> flowLogFormat]

\* A controller given a bucket and a format has two hubs and a spoke.
C17_Witness ==
    /\ flowLogBucket = SuppliedBucket
    /\ flowLogFormat = FlowLogFormatV3
    /\ Cardinality(DOMAIN hubs) = 2
    /\ spokes # {}

\* The allocation key the call that created a network passed on.
NetworkKey(n) ==
    IF n.kind = "hub" THEN HubKey(n.scope, n.id) ELSE SpokeKey(n.scope, n.id)

\* C18: the calls of addHub and addSpoke that succeeded in one scope used
\* pairwise different allocation keys; in particular the key of a spoke
\* differs from the key of the hub added in the same scope.
C18_KeysUniquePerScope ==
    \A n1 \in Networks, n2 \in Networks :
        (n1 # n2 /\ n1.scope = n2.scope) => NetworkKey(n1) # NetworkKey(n2)

\* C19: the environment is checked first. A scope of unresolved account or
\* region gets UnboundEnvironmentError from addHub whether or not its region
\* has a hub, and from addSpoke whether or not its region has one;
\* DuplicateHubError and MissingHubError are raised for concrete scopes only.
C19_EnvironmentCheckedFirst ==
    \A scope \in Scopes, id \in Ids, options \in OptionsSet :
        /\ \A o \in HubOutcomes(scope, id, options) :
              /\ ~Concrete(scope) => o.thrown = "UnboundEnvironmentError"
              /\ o.thrown = "DuplicateHubError" => Concrete(scope)
              /\ o.thrown = "UnboundEnvironmentError" => ~Concrete(scope)
        /\ \A o \in SpokeOutcomes(scope, id, options) :
              /\ ~Concrete(scope) => o.thrown = "UnboundEnvironmentError"
              /\ o.thrown = "MissingHubError" => Concrete(scope)
              /\ o.thrown = "UnboundEnvironmentError" => ~Concrete(scope)

\* A scope of unresolved account lies in a region that has a hub, and
\* addHub answers it with UnboundEnvironmentError; another region has no
\* hub, and addSpoke answers a scope of unresolved region the same way.
C19_Witness ==
    /\ \E scope \in Scopes :
          /\ IsUnresolved(scope.account)
          /\ scope.region \in DOMAIN hubs
          /\ \E o \in HubOutcomes(scope, "net", NoOptions) :
                o.thrown = "UnboundEnvironmentError"
    /\ \E scope \in Scopes :
          /\ IsUnresolved(scope.region)
          /\ StackRegion \notin DOMAIN hubs
          /\ \E o \in SpokeOutcomes(scope, "net", NoOptions) :
                o.thrown = "UnboundEnvironmentError"

\* The scope's account and region are the controller's own or registered.
Registered(c, scope) ==
    /\ scope.account = stack.account \/ Includes(c.accounts, scope.account)
    /\ scope.region = stack.region \/ Includes(c.regions, scope.region)

\* C20: addHub and addSpoke never end with SymbolicIdentifierError. Their
\* validation failures are UnboundEnvironmentError, DuplicateHubError
\* (addHub only) and MissingHubError (addSpoke only); a call that passed
\* them has a concrete scope, its registration step succeeds, and whatever
\* follows, the scope's account and region are registered when it ends.
C20_NoSymbolicIdentifierError ==
    \A scope \in Scopes, id \in Ids, options \in OptionsSet :
        /\ \A o \in HubOutcomes(scope, id, options) :
              /\ o.thrown \in {None, "UnboundEnvironmentError", "DuplicateHubError",
                               "AllocationError", "ConstructError"}
              /\ o.thrown \notin {"UnboundEnvironmentError", "DuplicateHubError"}
                     => Concrete(scope) /\ Registered(o.c, scope)
        /\ \A o \in SpokeOutcomes(scope, id, options) :
              /\ o.thrown \in {None, "UnboundEnvironmentError", "MissingHubError",
                               "AllocationError", "ConstructError", "TypeError"}
              /\ o.thrown \notin {"UnboundEnvironmentError", "MissingHubError"}
                     => Concrete(scope) /\ Registered(o.c, scope)
        /\ Concrete(scope)
               => LET ra == registerAccount(Ctl, scope.account)
                  IN  /\ ra.thrown = None
                      /\ registerRegion(ra.c, scope.region).thrown = None

\* A controller with a hub in its own account is asked for a hub in an
\* account and a region it has not seen: the call registers both.
C20_Witness ==
    /\ DOMAIN hubs # {}
    /\ \E scope \in Scopes :
          /\ Concrete(scope)
          /\ ~Registered(Ctl, scope)
          /\ ~Includes(registeredAccounts, scope.account)
          /\ ~Includes(registeredRegions, scope.region)
          /\ \E o \in HubOutcomes(scope, "net", [netmask |-> SmallestNetmask]) :
                o.thrown = None /\ Registered(o.c, scope)

====
